---- MODULE Spec2Model ----
(***************************************************************************)
(* A model of torchgeometry/homography_warper.py: the coordinate grid     *)
(* generator create_meshgrid, the HomographyWarper layer (__init__,       *)
(* warp_grid, crop_and_warp, forward) and the functional entry point      *)
(* homography_warp.                                                       *)
(*                                                                         *)
(* Tensors are records [shape, data] with data the flat row-major         *)
(* contents, so that view/permute/expand/index are modelled by what they   *)
(* do to the layout.  Floating point numbers are exact extended rationals  *)
(* <<n, d>> (d = 0 stands for the IEEE infinities and NaN).                *)
(*                                                                         *)
(* The torch primitives (linspace, meshgrid, stack, view, expand,          *)
(* grid_sample) follow PyTorch 1.0-1.2, the releases that have every       *)
(* primitive the file uses: linspace(a, b, 1) = [a], linspace(a, b, 0) is  *)
(* empty, and grid_sample maps -1 and 1 to the centres of the first and    *)
(* last pixel.  conversions.py is not part of the sources at hand; its     *)
(* three functions are modelled from the specification's section 4.2.      *)
(***************************************************************************)
EXTENDS Integers, Sequences, FiniteSets, TLC

\* ------------------------------------------------------------------ bounds

\* largest height / width handed to create_meshgrid and __init__
MaxDim == 3
\* largest height / width of an input image
MaxImg == 2
\* largest batch size
MaxBatch == 2
\* largest number N of explicit points
MaxPts == 2
\* largest offset added to the coordinates of a point set
MaxSeed == 1

\* --------------------------------------------------- extended rationals

Abs(n) == IF n < 0 THEN -n ELSE n

Sign(n) == IF n < 0 THEN -1 ELSE IF n = 0 THEN 0 ELSE 1

RECURSIVE Gcd(_, _)
Gcd(a, b) == IF b = 0 THEN a ELSE Gcd(b, a % b)

\* n/d in lowest terms; x/0 is +inf, -inf or NaN as in IEEE arithmetic
Rat(n, d) ==
    IF d = 0 THEN <<Sign(n), 0>>
    ELSE LET g == Gcd(Abs(n), Abs(d))
             s == Sign(d)
         IN  <<(s * n) \div g, (s * d) \div g>>

RInt(n) == <<n, 1>>

NaN == <<0, 0>>

IsFinite(a) == a[2] # 0

RAdd(a, b) ==
    IF IsFinite(a) /\ IsFinite(b) THEN Rat(a[1] * b[2] + b[1] * a[2], a[2] * b[2])
    ELSE IF a = NaN \/ b = NaN THEN NaN
    ELSE IF ~IsFinite(a) /\ ~IsFinite(b) THEN (IF a = b THEN a ELSE NaN)
    ELSE IF IsFinite(a) THEN b ELSE a

RNeg(a) == <<-a[1], a[2]>>

RSub(a, b) == RAdd(a, RNeg(b))

RMul(a, b) == Rat(a[1] * b[1], a[2] * b[2])

RDiv(a, b) ==
    IF IsFinite(b) THEN Rat(a[1] * b[2], a[2] * b[1])
    ELSE IF IsFinite(a) /\ b # NaN THEN RInt(0) ELSE NaN

RLt(a, b) == a[1] * b[2] < b[1] * a[2]

RFloor(a) == a[1] \div a[2]

\* ---------------------------------------------------------------- tensors

RECURSIVE Prod(_)
Prod(s) == IF s = <<>> THEN 1 ELSE Head(s) * Prod(Tail(s))

Numel(t) == Prod(t.shape)

\* a tensor lives on a device; factory functions allocate on the cpu
Tensor(shape, data) == [shape |-> shape, data |-> data, device |-> "cpu"]

\* Tensor.to(device)
To(t, device) == [t EXCEPT !.device = device]

\* the absent value: a call that raised returns nothing
None == [none |-> TRUE]

NoErr == [kind |-> "none", msg |-> <<>>]

Error(kind, msg) == [kind |-> kind, msg |-> msg]

Ok(v) == [ret |-> v, err |-> NoErr]

Raise(kind, msg) == [ret |-> None, err |-> Error(kind, msg)]

Failed(r) == r.err.kind # "none"

\* element [i, j, k] (0-based) of a rank-3 tensor
At3(t, i, j, k) == t.data[(i * t.shape[2] + j) * t.shape[3] + k + 1]

\* element [b, c, y, x] (0-based) of a rank-4 tensor
At4(t, b, c, y, x) ==
    t.data[((b * t.shape[2] + c) * t.shape[3] + y) * t.shape[4] + x + 1]

\* the index (0-based) along the given axis of the n-th element (1-based) of
\* the flat data of a tensor of the given shape
Ix(shape, n, axis) ==
    ((n - 1) \div Prod(SubSeq(shape, axis + 1, Len(shape)))) % shape[axis]

\* Tensor.view(shape): the same flat data under another shape
View(t, shape) ==
    IF Prod(shape) = Numel(t) THEN Ok([t EXCEPT !.shape = shape])
    ELSE Raise("RuntimeError", <<"view", t.shape, shape>>)

\* Tensor.view(1, 2, -1): the last size is inferred from the number of elements
View_1_2_infer(t) ==
    IF Numel(t) % 2 = 0 THEN View(t, <<1, 2, Numel(t) \div 2>>)
    ELSE Raise("RuntimeError", <<"view", t.shape, <<1, 2, -1>>>>)

\* Tensor.permute(0, 2, 1) of a rank-3 tensor
Permute021(t) ==
    [t EXCEPT !.shape = <<t.shape[1], t.shape[3], t.shape[2]>>,
              !.data = [n \in 1..Numel(t) |->
                           At3(t, Ix(<<t.shape[1], t.shape[3], t.shape[2]>>, n, 1),
                               Ix(<<t.shape[1], t.shape[3], t.shape[2]>>, n, 3),
                               Ix(<<t.shape[1], t.shape[3], t.shape[2]>>, n, 2))]]

\* Tensor.expand(batch, *shape[-2:]) of a rank-2 or rank-3 tensor
Expand(t, batch) ==
    LET r  == Len(t.shape)
        s2 == <<t.shape[r - 1], t.shape[r]>>
        n2 == Prod(s2)
    IN  IF r = 3 /\ t.shape[1] # 1 /\ t.shape[1] # batch
        THEN Raise("RuntimeError", <<"expand", t.shape, batch>>)
        ELSE Ok([t EXCEPT !.shape = <<batch>> \o s2,
                          !.data = [n \in 1..(batch * n2) |->
                                       IF r = 3 /\ t.shape[1] = batch THEN t.data[n]
                                       ELSE t.data[((n - 1) % n2) + 1]]])

\* ------------------------------------------------------- create_meshgrid

\* torch.linspace(start, end, steps)
linspace(start, end, steps) ==
    IF steps < 0 THEN Raise("RuntimeError", <<"linspace", steps>>)
    ELSE Ok(Tensor(<<steps>>,
                   [i \in 1..steps |->
                       IF steps = 1 THEN start
                       ELSE RAdd(start,
                                 RMul(RInt(i - 1),
                                      RDiv(RSub(end, start), RInt(steps - 1))))]))

\* torch.stack(torch.meshgrid([ys, xs])): shape (2, H, W), plane 0 holds ys[i]
\* and plane 1 holds xs[j] at [i, j]
stack_meshgrid(ys, xs) ==
    Tensor(<<2, ys.shape[1], xs.shape[1]>>,
           [n \in 1..(2 * ys.shape[1] * xs.shape[1]) |->
               IF Ix(<<2, ys.shape[1], xs.shape[1]>>, n, 1) = 0
               THEN ys.data[Ix(<<2, ys.shape[1], xs.shape[1]>>, n, 2) + 1]
               ELSE xs.data[Ix(<<2, ys.shape[1], xs.shape[1]>>, n, 3) + 1]])

\* t[:, (1, 0), :] of a rank-3 tensor with two planes
index_1_0(t) ==
    [t EXCEPT !.data = [n \in 1..Numel(t) |->
                           At3(t, Ix(t.shape, n, 1), 1 - Ix(t.shape, n, 2),
                               Ix(t.shape, n, 3))]]

\* line 22 / line 25: the horizontal coordinates
meshgrid_xs(width, normalized_coordinates) ==
    IF normalized_coordinates THEN linspace(RInt(-1), RInt(1), width)
    ELSE linspace(RInt(0), RInt(width - 1), width)

\* line 23 / line 26: the vertical coordinates
meshgrid_ys(height, normalized_coordinates) ==
    IF normalized_coordinates THEN linspace(RInt(-1), RInt(1), height)
    ELSE linspace(RInt(0), RInt(height - 1), height)

\* line 27, first half: torch.stack(torch.meshgrid([ys, xs])).view(1, 2, -1)
meshgrid_view(xs, ys) ==
    IF Failed(xs) THEN xs
    ELSE IF Failed(ys) THEN ys
    ELSE View_1_2_infer(stack_meshgrid(ys.ret, xs.ret))

\* line 27, second half: [:, (1, 0), :], which puts x before y
meshgrid_swap(v) == IF Failed(v) THEN v ELSE Ok(index_1_0(v.ret))

\* create_meshgrid without the final [:, (1, 0), :]: pairs come out as (y, x)
create_meshgrid_noswap(height, width, normalized_coordinates) ==
    meshgrid_view(meshgrid_xs(width, normalized_coordinates),
                  meshgrid_ys(height, normalized_coordinates))

\* create_meshgrid(height, width, normalized_coordinates): (1, 2, H * W)
create_meshgrid(height, width, normalized_coordinates) ==
    meshgrid_swap(meshgrid_view(meshgrid_xs(width, normalized_coordinates),
                                meshgrid_ys(height, normalized_coordinates)))

\* ------------------------------------------------------------ conversions

\* the shape of a point set with one more component per point
WithLast(shape, d) == <<shape[1], shape[2], d>>

\* to_homogeneous putting the 1 in front
to_homogeneous_leading(points) ==
    [points EXCEPT
        !.shape = WithLast(points.shape, points.shape[3] + 1),
        !.data = [n \in 1..(Numel(points) + points.shape[1] * points.shape[2]) |->
                     IF Ix(WithLast(points.shape, points.shape[3] + 1), n, 3) = 0
                     THEN RInt(1)
                     ELSE At3(points,
                              Ix(WithLast(points.shape, points.shape[3] + 1), n, 1),
                              Ix(WithLast(points.shape, points.shape[3] + 1), n, 2),
                              Ix(WithLast(points.shape, points.shape[3] + 1), n, 3) - 1)]]

\* convert_points_to_homogeneous: (B, N, D) -> (B, N, D + 1), a trailing 1
to_homogeneous(points) ==
    [points EXCEPT
        !.shape = WithLast(points.shape, points.shape[3] + 1),
        !.data = [n \in 1..(Numel(points) + points.shape[1] * points.shape[2]) |->
                     IF Ix(WithLast(points.shape, points.shape[3] + 1), n, 3)
                            = points.shape[3]
                     THEN RInt(1)
                     ELSE At3(points,
                              Ix(WithLast(points.shape, points.shape[3] + 1), n, 1),
                              Ix(WithLast(points.shape, points.shape[3] + 1), n, 2),
                              Ix(WithLast(points.shape, points.shape[3] + 1), n, 3))]]

\* convert_points_from_homogeneous: (B, N, D + 1) -> (B, N, D), the first D
\* components, with no division
from_homogeneous(points_h) ==
    [points_h EXCEPT
        !.shape = WithLast(points_h.shape, points_h.shape[3] - 1),
        !.data = [n \in 1..(Numel(points_h) - points_h.shape[1] * points_h.shape[2]) |->
                     At3(points_h,
                         Ix(WithLast(points_h.shape, points_h.shape[3] - 1), n, 1),
                         Ix(WithLast(points_h.shape, points_h.shape[3] - 1), n, 2),
                         Ix(WithLast(points_h.shape, points_h.shape[3] - 1), n, 3))]]

\* row r (0-based) of the b-th matrix of H (B, 3, 3) applied to the homogeneous
\* point n of P (B, N, 3)
MatRow(H, P, b, n, r) ==
    RAdd(RAdd(RMul(At3(H, b, r, 0), At3(P, b, n, 0)),
              RMul(At3(H, b, r, 1), At3(P, b, n, 1))),
         RMul(At3(H, b, r, 2), At3(P, b, n, 2)))

\* H applied to the homogeneous points P (B, N, 3), each result divided by its
\* last coordinate
project(H, P) ==
    [P EXCEPT
        !.device = H.device,
        !.data = [n \in 1..Numel(P) |->
                     RDiv(MatRow(H, P, Ix(P.shape, n, 1), Ix(P.shape, n, 2),
                                 Ix(P.shape, n, 3)),
                          MatRow(H, P, Ix(P.shape, n, 1), Ix(P.shape, n, 2), 2))]]

\* transform_points(H, points): homogeneous, H times each point, perspective
\* division, back from homogeneous
transform_points(H, points) ==
    IF Len(points.shape) # 3 \/ points.shape[3] # 2 \/ points.shape[1] # H.shape[1]
    THEN Raise("InvalidArgument", <<"transform_points", H.shape, points.shape>>)
    ELSE Ok(from_homogeneous(project(H, to_homogeneous(points))))

\* -------------------------------------------------------------- grid_sample

VARIABLES
    \* the warper under observation, None before it is constructed
    warper,
    \* the last call: its name, its arguments, what it returned, what it raised
    \* and the steps it went through
    op, args, ret, err, steps,
    \* what the build's grid_sample yields for a sampling location that is not
    \* finite (the float-to-index cast of such a value is undefined)
    nonfinite_sample,
    \* the result of the first reference warp_grid call on the warper
    probe

vars == <<warper, op, args, ret, err, steps, nonfinite_sample, probe>>

Clamp(v, lo, hi) == IF RLt(v, lo) THEN lo ELSE IF RLt(hi, v) THEN hi ELSE v

\* a normalised coordinate as a pixel coordinate of an axis of the given size:
\* -1 is the centre of the first pixel and 1 the centre of the last
Unnormalize(x, size) == RMul(RDiv(RAdd(x, RInt(1)), RInt(2)), RInt(size - 1))

\* 'border' clamps the location to the image, 'zeros' leaves it
SourceIndex(u, size, padding_mode) ==
    IF padding_mode = "border" THEN Clamp(u, RInt(0), RInt(size - 1)) ELSE u

Frac(v) == RSub(v, RInt(RFloor(v)))

\* the pixel [b, c, yy, xx] of input, 0 outside of it
Pixel(input, b, c, yy, xx) ==
    IF yy \in 0..(input.shape[3] - 1) /\ xx \in 0..(input.shape[4] - 1)
    THEN At4(input, b, c, yy, xx) ELSE RInt(0)

Lerp(w, v0, v1) == RAdd(RMul(RSub(RInt(1), w), v0), RMul(w, v1))

\* the bilinear interpolation of the four pixels around (x0 + wx, y0 + wy)
Interpolate(input, b, c, x0, y0, wx, wy) ==
    Lerp(wy,
         Lerp(wx, Pixel(input, b, c, y0, x0), Pixel(input, b, c, y0, x0 + 1)),
         Lerp(wx, Pixel(input, b, c, y0 + 1, x0), Pixel(input, b, c, y0 + 1, x0 + 1)))

InterpolateAt(input, b, c, ix, iy) ==
    Interpolate(input, b, c, RFloor(ix), RFloor(iy), Frac(ix), Frac(iy))

\* the value read from channel c of image b of input at location (x, y) of the
\* normalised image space, bilinearly
Bilinear(input, b, c, x, y, padding_mode) ==
    IF ~IsFinite(x) \/ ~IsFinite(y) THEN nonfinite_sample
    ELSE InterpolateAt(input, b, c,
                       SourceIndex(Unnormalize(x, input.shape[4]), input.shape[4],
                                   padding_mode),
                       SourceIndex(Unnormalize(y, input.shape[3]), input.shape[3],
                                   padding_mode))

\* component k of the (x, y) pair [b, i, j] of a grid (B, H, W, 2)
GridAt(grid, b, i, j, k) ==
    grid.data[((b * grid.shape[2] + i) * grid.shape[3] + j) * 2 + k + 1]

\* the shape of what grid_sample returns: (B, C, H, W)
SampledShape(input, grid) ==
    <<input.shape[1], input.shape[2], grid.shape[2], grid.shape[3]>>

\* F.grid_sample(input, grid, 'bilinear', padding_mode): input (B, C, Hi, Wi),
\* grid (B, H, W, 2) holding (x, y) pairs, output (B, C, H, W)
grid_sample(input, grid, padding_mode) ==
    IF Len(input.shape) # 4 \/ Len(grid.shape) # 4 \/ input.shape[1] # grid.shape[1]
       \/ grid.shape[4] # 2 \/ input.device # grid.device
    THEN Raise("RuntimeError", <<"grid_sample", input.shape, grid.shape>>)
    ELSE Ok([shape  |-> SampledShape(input, grid),
             device |-> input.device,
             data   |-> [n \in 1..Prod(SampledShape(input, grid)) |->
                            Bilinear(input,
                                     Ix(SampledShape(input, grid), n, 1),
                                     Ix(SampledShape(input, grid), n, 2),
                                     GridAt(grid, Ix(SampledShape(input, grid), n, 1),
                                            Ix(SampledShape(input, grid), n, 3),
                                            Ix(SampledShape(input, grid), n, 4), 0),
                                     GridAt(grid, Ix(SampledShape(input, grid), n, 1),
                                            Ix(SampledShape(input, grid), n, 3),
                                            Ix(SampledShape(input, grid), n, 4), 1),
                                     padding_mode)]])

\* --------------------------------------------------------- HomographyWarper

\* the module's global names (lines 1-5 import torch, nn, F and
\* transform_points): Variable is not among them
VariableIsDefined == FALSE

\* lines 54-58: the warper of full-image mode around the grid create_meshgrid
\* returned
init_full(height, width, grid) ==
    IF Failed(grid) THEN grid
    ELSE Ok([width |-> width, height |-> height, grid |-> Permute021(grid.ret)])

\* HomographyWarper.__init__(height, width, points): the new object, or the error
init(height, width, points) ==
    IF points # None
    THEN IF points.shape[1] # 3
         THEN Raise("AssertionError", <<"Points must be 3xN">>)
         ELSE Ok([width |-> points.shape[2], height |-> 1, grid |-> points])
    ELSE init_full(height, width, create_meshgrid(height, width, TRUE))

\* a method's outcome: the object after the call, the value returned, the
\* error raised and the steps gone through
Outcome(self, r, st) == [self |-> self, ret |-> r.ret, err |-> r.err, steps |-> st]

\* line 72 with height and width exchanged: the flow as (batch, width, height, 2)
view_flow_transposed(self, H, flow) ==
    IF Failed(flow) THEN flow
    ELSE View(flow.ret, <<H.shape[1], self.width, self.height, 2>>)

\* line 72: the flow viewed as (batch, height, width, 2)
view_flow(self, H, flow) ==
    IF Failed(flow) THEN flow
    ELSE View(flow.ret, <<H.shape[1], self.height, self.width, 2>>)

\* lines 71-72: the expanded grid, moved to the device of H, through
\* transform_points
warp_flow(self, H, grid) ==
    IF Failed(grid) THEN grid
    ELSE view_flow(self, H, transform_points(H, To(grid.ret, H.device)))

\* line 68 assigning the expanded grid to self.grid
store_grid(self, grid) == IF Failed(grid) THEN self ELSE [self EXCEPT !.grid = grid.ret]

\* warp_grid keeping the expanded grid as the object's grid
warp_grid_store(self, H) ==
    Outcome(store_grid(self, Expand(self.grid, H.shape[1])),
            warp_flow(self, H, Expand(self.grid, H.shape[1])),
            <<"warp_grid">>)

\* HomographyWarper.warp_grid(H)
warp_grid(self, H) ==
    Outcome(self, warp_flow(self, H, Expand(self.grid, H.shape[1])), <<"warp_grid">>)

\* the error of line 131
DeviceError(patch, dst_homo_src) ==
    Raise("TypeError",
          <<"Patch and homography must be on the same device.",
            patch.device, dst_homo_src.device>>)

\* lines 134-135: the resampling of patch at the warped grid g
forward_sample(g, patch, padding_mode) ==
    IF Failed(g) THEN Outcome(g.self, g, <<"device_check", "warp_grid">>)
    ELSE Outcome(g.self, grid_sample(patch, g.ret, padding_mode),
                 <<"device_check", "warp_grid", "grid_sample">>)

\* forward without the device check of lines 130-133
forward_unchecked(self, patch, dst_homo_src, padding_mode) ==
    forward_sample(warp_grid(self, dst_homo_src), patch, padding_mode)

\* HomographyWarper.forward(patch, dst_homo_src, padding_mode)
forward(self, patch, dst_homo_src, padding_mode) ==
    IF dst_homo_src.device # patch.device
    THEN Outcome(self, DeviceError(patch, dst_homo_src), <<"device_check">>)
    ELSE forward_sample(warp_grid(self, dst_homo_src), patch, padding_mode)

\* lines 86-87 and 89-90: a pixel coordinate in the normalised space of an axis
\* of the given size
roi_normalize(coord, size) == RSub(RDiv(RInt(2 * coord), RInt(size)), RInt(1))

\* lines 92 and 95: the offset b of an axis, the midpoint of the interval
roi_offset(start, end) == RDiv(RAdd(start, end), RInt(2))

\* lines 93 and 96: the scale a of an axis, the half width of the interval
roi_scale(start, end) == RSub(roi_offset(start, end), start)

\* lines 81-96 of crop_and_warp: the roi (start_y, end_y, start_x, end_x),
\* ends exclusive, as the scale a and the offset b of each axis
crop_coeffs(image, roi) ==
    [a_x |-> roi_scale(roi_normalize(roi[3], image.shape[4]),
                       roi_normalize(roi[4] - 1, image.shape[4])),
     a_y |-> roi_scale(roi_normalize(roi[1], image.shape[3]),
                       roi_normalize(roi[2] - 1, image.shape[3])),
     b_x |-> roi_offset(roi_normalize(roi[3], image.shape[4]),
                        roi_normalize(roi[4] - 1, image.shape[4])),
     b_y |-> roi_offset(roi_normalize(roi[1], image.shape[3]),
                        roi_normalize(roi[2] - 1, image.shape[3]))]

\* line 102 of crop_and_warp: grid * a + b, a and b broadcast over the (x, y)
\* pairs of the grid
crop_remap(grid, co) ==
    [grid EXCEPT !.data =
        [n \in 1..Len(grid.data) |->
            IF (n - 1) % 2 = 0 THEN RAdd(RMul(grid.data[n], co.a_x), co.b_x)
            ELSE RAdd(RMul(grid.data[n], co.a_y), co.b_y)]]

\* lines 79-104: what crop_and_warp does with the warped grid g
crop_sample(g, image, roi, padding_mode) ==
    IF Failed(g) THEN Outcome(g.self, g, <<"warp_grid">>)
    ELSE IF Len(image.shape) # 4
    THEN Outcome(g.self, Raise("AssertionError", <<image.shape>>),
                 <<"warp_grid", "assert_rank">>)
    ELSE IF ~VariableIsDefined
    THEN Outcome(g.self, Raise("NameError", <<"Variable">>),
                 <<"warp_grid", "assert_rank", "roi_coeffs">>)
    ELSE Outcome(g.self,
                 grid_sample(image, crop_remap(g.ret, crop_coeffs(image, roi)),
                             padding_mode),
                 <<"warp_grid", "assert_rank", "roi_coeffs", "grid_sample">>)

\* HomographyWarper.crop_and_warp(H, image, roi, padding_mode)
crop_and_warp(self, H, image, roi, padding_mode) ==
    crop_sample(warp_grid(self, H), image, roi, padding_mode)

\* ---------------------------------------------------------- functional api

\* a function's outcome: the value returned, the error raised, the steps
Returned(r, st) == [ret |-> r.ret, err |-> r.err, steps |-> st]

\* line 172: the call of the warper just built
warp_with(warper_, patch, dst_H_src, padding_mode) ==
    IF Failed(warper_) THEN Returned(warper_, <<"__init__">>)
    ELSE Returned(forward(warper_.ret, patch, dst_H_src, padding_mode),
                  <<"__init__", "forward">>)

\* homography_warp reading dsize as (width, height)
homography_warp_swapped(patch, dst_H_src, dsize, points, padding_mode) ==
    warp_with(init(dsize[2], dsize[1], points), patch, dst_H_src, padding_mode)

\* homography_warp(patch, dst_H_src, dsize, points, padding_mode)
homography_warp(patch, dst_H_src, dsize, points, padding_mode) ==
    warp_with(init(dsize[1], dsize[2], points), patch, dst_H_src, padding_mode)

\* --------------------------------------------------------------- inputs

Devices == {"cpu", "cuda"}

\* the batch sizes calls are made with: a single element and the largest batch
BatchSizes == {1, MaxBatch}

\* the heights and widths of the images calls are made with
ImageSides == {1, MaxImg}

PaddingModes == {"zeros", "border"}

\* the homographies calls are made with: the identity, the exchange of the
\* axes, the identity at projective scale 2, a shift to the right, a
\* perspective map whose divisor vanishes on the line x = -1, and a matrix
\* whose divisor vanishes everywhere
Homs ==
    << <<1, 0, 0,  0, 1, 0,  0, 0, 1>>,
       <<0, 1, 0,  1, 0, 0,  0, 0, 1>>,
       <<2, 0, 0,  0, 2, 0,  0, 0, 2>>,
       <<1, 0, 1,  0, 1, 0,  0, 0, 1>>,
       <<1, 0, 0,  0, 1, 0,  1, 0, 1>>,
       <<1, 0, 0,  0, 1, 0,  0, 0, 0>> >>

\* a batch of homographies (batch, 3, 3): the b-th (0-based) is
\* Homs[first + b * (first - 1)], cyclically, so that first = 1 gives a batch of
\* identities and any other first a batch of different matrices
HomBatch(first, batch, device) ==
    [shape  |-> <<batch, 3, 3>>,
     device |-> device,
     data   |-> [n \in 1..(batch * 9) |->
                    RInt(Homs[(((first - 1) * ((n - 1) \div 9 + 1)) % Len(Homs)) + 1]
                             [((n - 1) % 9) + 1])]]

\* an image (batch, 1, hi, wi) whose pixels all differ
Image(batch, hi, wi, device) ==
    [shape  |-> <<batch, 1, hi, wi>>,
     device |-> device,
     data   |-> [n \in 1..(batch * hi * wi) |-> RInt(n)]]

\* an explicit point set (rows, n): the points (j - 1, 0, 1), one per column
Points(rows, n) ==
    Tensor(<<rows, n>>,
           [k \in 1..(rows * n) |->
               LET r == (k - 1) \div n
                   j == (k - 1) % n
               IN  IF r = 0 THEN RInt(j - 1)
                   ELSE IF r = rows - 1 THEN RInt(1) ELSE RInt(0)])

PointSets == {Points(3, n) : n \in 1..MaxPts} \cup {Points(2, 1)}

\* a point set (batch, n, d) of mixed integers and fractions
PointSet(batch, n, d, seed) ==
    Tensor(<<batch, n, d>>,
           [m \in 1..(batch * n * d) |->
               Rat(seed + Ix(<<batch, n, d>>, m, 1) - Ix(<<batch, n, d>>, m, 2) * d
                       + Ix(<<batch, n, d>>, m, 3),
                   1 + ((Ix(<<batch, n, d>>, m, 2) + Ix(<<batch, n, d>>, m, 3)) % 2))])

\* the homographies crop_and_warp is called with: the identity and the shift
CropHoms == {1, 4}

RoiKinds == {"full", "first_pixel", "past_end", "before_start", "empty"}

\* the regions of interest (start_y, end_y, start_x, end_x) tried on an image
\* of height h and width w
Roi(kind, h, w) ==
    CASE kind = "full"         -> <<0, h, 0, w>>
      [] kind = "first_pixel"  -> <<0, 1, 0, 1>>
      [] kind = "past_end"     -> <<0, h + 1, 0, w>>
      [] kind = "before_start" -> <<-1, h, 0, w>>
      [] kind = "empty"        -> <<0, h, 1, 1>>

\* the arguments of the reference call whose first result is kept in probe
IsReference(a) == a.first = 2 /\ a.batch = 1 /\ a.device = "cpu"

\* --------------------------------------------------------------- actions

Init ==
    /\ warper = None
    /\ op = "idle"
    /\ args = None
    /\ ret = None
    /\ err = NoErr
    /\ steps = <<>>
    /\ nonfinite_sample \in {NaN, RInt(0)}
    /\ probe = None

\* a direct call of create_meshgrid
CallCreateMeshgrid ==
    \E height \in -1..MaxDim, width \in -1..MaxDim, normalized \in BOOLEAN :
        LET r == create_meshgrid(height, width, normalized)
        IN  /\ op = "idle"
            /\ op' = "create_meshgrid"
            /\ args' = [height |-> height, width |-> width, normalized |-> normalized]
            /\ ret' = r.ret
            /\ err' = r.err
            /\ steps' = <<>>
            /\ UNCHANGED <<warper, nonfinite_sample, probe>>

\* HomographyWarper(height, width, points): the warper under observation is built
Construct ==
    /\ op = "idle"
    /\ warper = None
    /\ \E a \in ([height : -1..MaxImg, width : -1..MaxImg, points : {None}]
                 \cup [height : {1}, width : {1}, points : PointSets]) :
        LET r == init(a.height, a.width, a.points)
        IN  /\ warper' = r.ret
            /\ op' = "__init__"
            /\ args' = a
            /\ ret' = r.ret
            /\ err' = r.err
            /\ steps' = <<>>
            /\ UNCHANGED <<nonfinite_sample, probe>>

\* warper.warp_grid(H)
CallWarpGrid ==
    /\ op = "idle"
    /\ warper # None
    /\ \E a \in [first : 1..Len(Homs), batch : BatchSizes, device : Devices] :
        LET r == warp_grid(warper, HomBatch(a.first, a.batch, a.device))
        IN  /\ warper' = r.self
            /\ op' = "warp_grid"
            /\ args' = a
            /\ ret' = r.ret
            /\ err' = r.err
            /\ steps' = r.steps
            /\ probe' = IF probe = None /\ IsReference(a)
                        THEN [ret |-> r.ret, err |-> r.err] ELSE probe
            /\ UNCHANGED nonfinite_sample

\* warper(patch, dst_homo_src, padding_mode)
CallForward ==
    /\ op = "idle"
    /\ warper # None
    /\ \E a \in [first : 1..Len(Homs), batch : BatchSizes, device : Devices,
                 hi : ImageSides, wi : ImageSides,
                 patch_device : Devices, padding_mode : PaddingModes] :
        LET r == forward(warper,
                         Image(a.batch, a.hi, a.wi, a.patch_device),
                         HomBatch(a.first, a.batch, a.device), a.padding_mode)
        IN  /\ warper' = r.self
            /\ op' = "forward"
            /\ args' = a
            /\ ret' = r.ret
            /\ err' = r.err
            /\ steps' = r.steps
            /\ UNCHANGED <<nonfinite_sample, probe>>

\* warper.crop_and_warp(H, image, roi, padding_mode)
CallCropAndWarp ==
    /\ op = "idle"
    /\ warper # None
    /\ \E a \in [first : CropHoms, batch : BatchSizes,
                 hi : ImageSides, wi : ImageSides,
                 roi : RoiKinds, padding_mode : PaddingModes] :
        LET r == crop_and_warp(warper, HomBatch(a.first, a.batch, "cpu"),
                               Image(a.batch, a.hi, a.wi, "cpu"),
                               Roi(a.roi, a.hi, a.wi), a.padding_mode)
        IN  /\ warper' = r.self
            /\ op' = "crop_and_warp"
            /\ args' = a
            /\ ret' = r.ret
            /\ err' = r.err
            /\ steps' = r.steps
            /\ UNCHANGED <<nonfinite_sample, probe>>

\* homography_warp(patch, dst_H_src, dsize, points, padding_mode)
CallHomographyWarp ==
    /\ op = "idle"
    /\ \E a \in [first : 1..Len(Homs), batch : BatchSizes, device : Devices,
              hi : ImageSides, wi : ImageSides,
              patch_device : Devices, padding_mode : PaddingModes] :
      \E d \in ([dsize : (0..MaxImg) \X (0..MaxImg), points : {None}]
                \cup [dsize : {<<1, 1>>}, points : PointSets]) :
            LET r == homography_warp(Image(a.batch, a.hi, a.wi, a.patch_device),
                                     HomBatch(a.first, a.batch, a.device),
                                     d.dsize, d.points, a.padding_mode)
            IN  /\ op' = "homography_warp"
                /\ args' = [call |-> a, dsize |-> d.dsize, points |-> d.points]
                /\ ret' = r.ret
                /\ err' = r.err
                /\ steps' = r.steps
                /\ UNCHANGED <<warper, nonfinite_sample, probe>>

\* convert_points_to_homogeneous(points)
CallToHomogeneous ==
    \E a \in [batch : BatchSizes, n : 1..MaxPts, d : 1..3, seed : 0..MaxSeed] :
        /\ op = "idle"
        /\ op' = "to_homogeneous"
        /\ args' = a
        /\ ret' = to_homogeneous(PointSet(a.batch, a.n, a.d, a.seed))
        /\ err' = NoErr
        /\ steps' = <<>>
        /\ UNCHANGED <<warper, nonfinite_sample, probe>>

\* convert_points_from_homogeneous(points_h), on what to_homogeneous returned
CallFromHomogeneous ==
    /\ op = "to_homogeneous"
    /\ op' = "from_homogeneous"
    /\ args' = [points_h |-> ret, origin |-> args]
    /\ ret' = from_homogeneous(ret)
    /\ err' = NoErr
    /\ steps' = <<>>
    /\ UNCHANGED <<warper, nonfinite_sample, probe>>

\* the caller takes the result and the call is over
Return ==
    /\ op # "idle"
    /\ op' = "idle"
    /\ args' = None
    /\ ret' = None
    /\ err' = NoErr
    /\ steps' = <<>>
    /\ UNCHANGED <<warper, nonfinite_sample, probe>>

\* the life of a HomographyWarper: built once, then called any number of times
\* convert_points_from_homogeneous(points_h), on points of any last coordinate
CallFromHomogeneousRaw ==
    \E a \in [batch : BatchSizes, n : 1..MaxPts, d : 1..3, seed : 0..MaxSeed] :
        /\ op = "idle"
        /\ op' = "from_homogeneous"
        /\ args' = [points_h |-> PointSet(a.batch, a.n, a.d + 1, a.seed), origin |-> None]
        /\ ret' = from_homogeneous(PointSet(a.batch, a.n, a.d + 1, a.seed))
        /\ err' = NoErr
        /\ steps' = <<>>
        /\ UNCHANGED <<warper, nonfinite_sample, probe>>

Next ==
    \/ Construct
    \/ CallWarpGrid
    \/ CallForward
    \/ CallCropAndWarp
    \/ Return

Spec == Init /\ [][Next]_vars

\* calls of the module's functions and of the conversions
FuncNext ==
    \/ CallCreateMeshgrid
    \/ CallHomographyWarp
    \/ CallToHomogeneous
    \/ CallFromHomogeneous
    \/ CallFromHomogeneousRaw
    \/ Return

FuncSpec == Init /\ [][FuncNext]_vars

\* ---------------------------------------------------------------- claims

\* a warper of full-image mode holds a (1, H * W, 2) grid, one of
\* explicit-points mode the (3, N) point set
IsFullImage(w) == Len(w.grid.shape) = 3

\* the errors that reject an argument: the assertions of the file, the
\* shape and argument errors of torch and of transform_points
InvalidArgumentKinds == {"InvalidArgument", "AssertionError", "RuntimeError"}

\* C1: warp_grid(H) returns a grid of shape (batch, warper.height,
\* warper.width, 2) for every warper, of full-image mode or of explicit-points
\* mode, and every batch of homographies.
C1_WarpGridShape ==
    op = "warp_grid" =>
        /\ err = NoErr
        /\ ret.shape = <<args.batch, warper.height, warper.width, 2>>

\* The part of C1 that holds: the shape of warp_grid for a warper of
\* full-image mode.
WarpGridShapeFullImage ==
    (op = "warp_grid" /\ IsFullImage(warper)) =>
        /\ err = NoErr
        /\ ret.shape = <<args.batch, warper.height, warper.width, 2>>

\* C2: forward with patch and dst_homo_src on different devices fails with the
\* device error, whose message names both devices, before any grid is warped
\* or resampled and with nothing returned; on equal devices the device error
\* is never raised.
C2_DeviceMismatch ==
    op = "forward" =>
        IF args.device # args.patch_device
        THEN /\ err.kind = "TypeError"
             /\ \E i \in DOMAIN err.msg : err.msg[i] = args.patch_device
             /\ \E i \in DOMAIN err.msg : err.msg[i] = args.device
             /\ ret = None
             /\ steps = <<"device_check">>
        ELSE err.kind # "TypeError"

C2_Witness ==
    /\ op = "forward"
    /\ args.device = "cuda"
    /\ args.patch_device = "cpu"
    /\ err.kind = "TypeError"

\* the forward call that the crop_and_warp call of args is compared with
ForwardOfCrop(a) ==
    forward(warper, Image(a.batch, a.hi, a.wi, "cpu"),
            HomBatch(a.first, a.batch, "cpu"), a.padding_mode)

\* C3: crop_and_warp with the identity homography and the roi of the full
\* image, on a warper of the image's size, returns what forward returns.
C3_CropFullRoiIsForward ==
    (/\ op = "crop_and_warp"
     /\ args.first = 1
     /\ args.roi = "full"
     /\ IsFullImage(warper)
     /\ warper.height = args.hi
     /\ warper.width = args.wi) =>
        /\ err = NoErr
        /\ ret = ForwardOfCrop(args).ret

\* The arithmetic of lines 83-102 alone, as it would run were Variable
\* defined: the remapped grid of the full roi is the grid forward samples with.
CropFullRoiGridIsForwardGrid ==
    (/\ op = "crop_and_warp"
     /\ args.first = 1
     /\ args.roi = "full"
     /\ IsFullImage(warper)
     /\ warper.height = args.hi
     /\ warper.width = args.wi) =>
        crop_remap(warp_grid(warper, HomBatch(1, args.batch, "cpu")).ret,
                   crop_coeffs(Image(args.batch, args.hi, args.wi, "cpu"),
                               Roi("full", args.hi, args.wi)))
            = warp_grid(warper, HomBatch(1, args.batch, "cpu")).ret

\* the i-th of n samples running linearly from -1 to 1, -1 when there is one
Coord(i, n) == IF n = 1 THEN RInt(-1) ELSE Rat(2 * i - (n - 1), n - 1)

C5_IdentityReproduces ==
    /\ (op = "warp_grid" /\ args.first = 1 /\ IsFullImage(warper)) =>
          /\ err = NoErr
          /\ \A b \in 0..(args.batch - 1), k \in 1..Len(warper.grid.data) :
                ret.data[b * Len(warper.grid.data) + k] = warper.grid.data[k]
    /\ (/\ op = "forward"
        /\ args.first = 1
        /\ args.device = args.patch_device
        /\ args.padding_mode = "zeros"
        /\ IsFullImage(warper)
        /\ warper.height = args.hi
        /\ warper.width = args.wi) =>
          /\ err = NoErr
          /\ ret = Image(args.batch, args.hi, args.wi, args.patch_device)

C5_Witness ==
    /\ op = "forward"
    /\ args.first = 1
    /\ args.batch = 2
    /\ args.device = args.patch_device
    /\ args.padding_mode = "zeros"
    /\ IsFullImage(warper)
    /\ warper.height = 1
    /\ warper.width = 2
    /\ args.hi = 1
    /\ args.wi = 2
    /\ ret = Image(2, 1, 2, args.patch_device)

\* C6: to_homogeneous gives every point D + 1 components, the last of them 1;
\* from_homogeneous returns the first D components as they are, with no
\* division; so from_homogeneous of to_homogeneous of P is P.
C6_HomogeneousRoundTrip ==
    /\ op = "to_homogeneous" =>
          /\ ret.shape = <<args.batch, args.n, args.d + 1>>
          /\ \A b \in 0..(args.batch - 1), n \in 0..(args.n - 1) :
                At3(ret, b, n, args.d) = RInt(1)
    /\ op = "from_homogeneous" =>
          /\ ret.shape = <<args.points_h.shape[1], args.points_h.shape[2],
                           args.points_h.shape[3] - 1>>
          /\ \A b \in 0..(ret.shape[1] - 1), n \in 0..(ret.shape[2] - 1),
                k \in 0..(ret.shape[3] - 1) :
                At3(ret, b, n, k) = At3(args.points_h, b, n, k)
          /\ args.origin # None =>
                ret = PointSet(args.origin.batch, args.origin.n, args.origin.d,
                               args.origin.seed)

C6_Witness ==
    /\ op = "from_homogeneous"
    /\ args.origin # None
    /\ args.origin.d = 2
    /\ args.origin.n = 2
    /\ ret = PointSet(args.origin.batch, 2, 2, args.origin.seed)

\* C7: constructing a warper of full-image mode with a height or a width that
\* is not positive fails with an argument error, and no warper is produced.
C7_NonPositiveDimsRejected ==
    (op = "__init__" /\ args.points = None /\ (args.height <= 0 \/ args.width <= 0)) =>
        /\ err.kind \in InvalidArgumentKinds
        /\ warper = None

\* C8: crop_and_warp with a roi outside of the image, or an empty one, fails
\* with an argument error and returns nothing.
C8_RoiOutOfBoundsRejected ==
    (/\ op = "crop_and_warp"
     /\ args.roi \in {"past_end", "before_start", "empty"}
     /\ IsFullImage(warper)
     /\ warper.height >= 1
     /\ warper.width >= 1) =>
        /\ err.kind \in InvalidArgumentKinds
        /\ ret = None

\* C9: no call of warp_grid, forward or crop_and_warp, failing or not, changes
\* the height, the width or the grid of the warper; and a reference call
\* returns what the first reference call returned, whatever was called in
\* between.
C9_WarperUnchanged ==
    [][/\ warper # None => warper' = warper
       /\ (probe # None /\ op' = "warp_grid" /\ IsReference(args')) =>
              (ret' = probe.ret /\ err' = probe.err)]_vars

C9_Witness ==
    /\ probe # None
    /\ probe.err = NoErr
    /\ op = "crop_and_warp"
    /\ args.batch = 2
    /\ err.kind = "NameError"

\* C10: homography_warp returns what forward returns on a warper freshly built
\* for dsize (or for the points), errors included, and an image it returns has
\* the height and width of that warper, which are dsize and not the patch's.
C10_FunctionalIsForward ==
    op = "homography_warp" =>
        IF Failed(init(args.dsize[1], args.dsize[2], args.points))
        THEN /\ err = init(args.dsize[1], args.dsize[2], args.points).err
             /\ ret = None
        ELSE /\ ret = forward(init(args.dsize[1], args.dsize[2], args.points).ret,
                              Image(args.call.batch, args.call.hi, args.call.wi,
                                    args.call.patch_device),
                              HomBatch(args.call.first, args.call.batch, args.call.device),
                              args.call.padding_mode).ret
             /\ err = forward(init(args.dsize[1], args.dsize[2], args.points).ret,
                              Image(args.call.batch, args.call.hi, args.call.wi,
                                    args.call.patch_device),
                              HomBatch(args.call.first, args.call.batch, args.call.device),
                              args.call.padding_mode).err
             /\ (err = NoErr /\ args.points = None) =>
                   <<ret.shape[3], ret.shape[4]>> = args.dsize
             /\ warper = None

C10_Witness ==
    /\ op = "homography_warp"
    /\ err = NoErr
    /\ args.points = None
    /\ args.dsize = <<1, 2>>
    /\ args.call.hi = 2
    /\ args.call.wi = 1
    /\ ret.shape = <<args.call.batch, 1, 1, 2>>

====
